---- MODULE Spec2Model ----
(***************************************************************************)
(* A model of the tk-gdn toolkit hooks: the publish2 collector             *)
(* (hooks/tk-multi-publish2/basic/collector.py) and the rendering publish  *)
(* plugin (hooks/tk-multi-publish2/basic/publish_rendering.py).            *)
(*                                                                         *)
(* Python strings are sequences of one-character strings, so that regular  *)
(* expressions, os.path.join, re.sub and str.format are computed character *)
(* by character.  Python's None is the one-element sequence <<"None">>,    *)
(* which no character string equals.                                       *)
(***************************************************************************)
EXTENDS Integers, Sequences, FiniteSets, TLC

VARIABLES
    settings,        \* the settings dictionary the host hands to the hook
    entity_type,     \* self.parent.context.entity.get('type')
    workspace,       \* what the gdn.Workspace bridge reports
    disk,            \* the part of the file system the collector reads
    items,           \* the publish item tree, in creation order
    raised,          \* the exception the last hook call ended with, or "none"
    pc,              \* which hook call ran last
    item,            \* the publish item handed to the publish plugin
    project_path,    \* engine.project_path as the publish plugin reads it
    missing_keys,    \* the paths whose fields lack keys of the publish template
    ret,             \* the value the last plugin call returned
    base_calls,      \* the inherited (base class) calls the last plugin call made
    before,          \* the item's properties when the last plugin call began
    published_renderings,  \* the list publish() bound to that name, at its end
    calls,           \* the number of hook calls made so far
    args,            \* the arguments of the last scene operation or launcher call
    gdn_calls,       \* the calls the last scene operation made on gdn.Workspace
    launcher,        \* what the launcher finds: engine environment, descriptors, os
    widget,          \* the ContextWidget and the task manager it owns
    trace            \* the calls the widget has made, in order

vars == <<settings, entity_type, workspace, disk, items, raised, pc,
          item, project_path, missing_keys, ret, base_calls, before,
          published_renderings, calls, args, gdn_calls, launcher, widget,
          trace>>

(***************************************************************************)
(* Bounds of the model.                                                    *)
(***************************************************************************)
MaxFiles == 2
MaxSeqs == 2
MaxPaths == 2
MaxCalls == 3

(***************************************************************************)
(* Strings.                                                                *)
(***************************************************************************)
None == <<"None">>

Digit == {"0", "1", "2", "3", "4", "5", "6", "7", "8", "9"}
Whitespace == {" ", "\t", "\n", "\r"}

Truthy(s) == s # None /\ s # <<>>

RECURSIVE Concat(_)
Concat(ss) == IF ss = <<>> THEN <<>> ELSE Head(ss) \o Concat(Tail(ss))

\* Python's  sub in s
Contains(sub, s) ==
    \E i \in 0..(Len(s) - Len(sub)) : SubSeq(s, i + 1, i + Len(sub)) = sub

\* os.path.join(a, b) on a POSIX host
path_join(a, b) ==
    IF b # <<>> /\ Head(b) = "/" THEN b
    ELSE IF a = <<>> \/ a[Len(a)] = "/" THEN a \o b
    ELSE a \o <<"/">> \o b

\* The text after the last "." of a file name (os.path.splitext, lower case
\* names only), <<>> when there is none.
Extension(name) ==
    LET dots == {i \in 1..Len(name) : name[i] = "."}
    IN IF dots = {} THEN <<>>
       ELSE SubSeq(name, (CHOOSE i \in dots : \A j \in dots : j <= i) + 1, Len(name))

SetMax(S) == CHOOSE x \in S : \A y \in S : y <= x

(***************************************************************************)
(* The version group of the collector's regular expression: re.match with  *)
(* flags=re.M of the pattern                                               *)
(*     ANY-PREFIX  \.v  DDD  \.  X{3,}$                                    *)
(* where ANY-PREFIX is the greedy dot-star group 1, DDD is group 2 (three  *)
(* digits) and X is the character class of the tail: any character but a   *)
(* newline (the movie pattern) or any non-whitespace character (the scene  *)
(* pattern).  The match is anchored at the start of s; the greedy prefix   *)
(* takes the longest newline-free prefix that lets the rest match, so      *)
(* group 2 is the LAST .vDDD. of the first line that is followed by at     *)
(* least three X up to the end of a line.  None when there is no match.    *)
(***************************************************************************)
TailMatches(s, from, nonspace) ==
    \E k \in 3..(Len(s) - from + 1) :
        /\ \A j \in from..(from + k - 1) :
              IF nonspace THEN s[j] \notin Whitespace ELSE s[j] # "\n"
        /\ (from + k - 1 = Len(s) \/ s[from + k] = "\n")

VersionMatchStarts(s, nonspace) ==
    {i \in 0..(Len(s) - 9) :
        /\ \A j \in 1..i : s[j] # "\n"
        /\ s[i + 1] = "."
        /\ s[i + 2] = "v"
        /\ \A j \in (i + 3)..(i + 5) : s[j] \in Digit
        /\ s[i + 6] = "."
        /\ TailMatches(s, i + 7, nonspace)}

version_group(s, nonspace) ==
    LET starts == VersionMatchStarts(s, nonspace)
    IN IF starts = {} THEN None
       ELSE SubSeq(s, SetMax(starts) + 3, SetMax(starts) + 5)

\* collector.py:171, the scene file name
scene_version_of(scene_file) == version_group(scene_file, TRUE)

\* collector.py:199, the movie path
movie_version_of(movie_path) == version_group(movie_path, FALSE)

(***************************************************************************)
(* Dictionaries (settings, item properties, template fields) are functions *)
(* on the set of keys present.                                             *)
(***************************************************************************)
EmptyDict == [k \in {} |-> None]

Has(d, k) == k \in DOMAIN d

\* dict.get(k, default)
Get(d, k, default) == IF k \in DOMAIN d THEN d[k] ELSE default

\* d[k] = v
Put(d, k, v) == [x \in (DOMAIN d) \cup {k} |-> IF x = k THEN v ELSE d[x]]

(***************************************************************************)
(* Templates.  A template is named by a one-element sequence; the engine   *)
(* resolves the names of the templates defined in templates.yml and gives  *)
(* None for any other name.                                                *)
(***************************************************************************)
WorkTemplate == <<"gdn_shot_work">>
RenderTemplate == <<"gdn_shot_render">>
PublishTemplate == <<"gdn_shot_publish">>
UnknownTemplate == <<"no_such_template">>

DefinedTemplates == {WorkTemplate, RenderTemplate, PublishTemplate}

\* engine.get_template_by_name
get_template_by_name(name) == IF name \in DefinedTemplates THEN name ELSE None

\* collector.py:98-102
get_work_template_for_item(s) ==
    IF Has(s, "Work Template")
        THEN get_template_by_name(s["Work Template"])
        ELSE None

\* collector.py:104-108
get_render_collector_template_for_item(s) ==
    IF Has(s, "Render Sequence Template")
        THEN get_template_by_name(s["Render Sequence Template"])
        ELSE None

(***************************************************************************)
(* Publish items.                                                          *)
(***************************************************************************)
\* parent_item.create_item(type, type_display, name) with the host's defaults
create_item(parent, type, display, name) ==
    [type |-> type, display |-> display, name |-> name, parent |-> parent,
     props |-> EmptyDict, thumbnail_enabled |-> TRUE,
     context_change_allowed |-> TRUE, expanded |-> TRUE, checked |-> TRUE]

Untitled == <<"U", "n", "t", "i", "t", "l", "e", "d">>
MovieRenderSuffix == <<" ", "(", "m", "o", "v", "i", "e", " ", "r", "e", "n", "d", "e", "r", ")">>
DefaultMoviesDir == <<"m", "o", "v", "i", "e", "s">>
DefaultImagesDir == <<"i", "m", "a", "g", "e", "s">>
MovieWord == <<"m", "o", "v", "i", "e">>
VideoExtensions == {<<"m", "o", "v">>, <<"m", "p", "4">>}

\* collector.py:110-138; the project item is a child of the root (index 0)
get_project_publish_item(s, ws) ==
    LET path == ws.scene_path
        project_name == IF Truthy(path) THEN ws.scenefile ELSE Untitled
        it == create_item(0, "gdn.project", "GDN Scene", project_name)
        p1 == Put(Put(EmptyDict, "file_path", path), "published_renderings", <<>>)
        wt == get_work_template_for_item(s)
        p2 == IF wt # None THEN Put(p1, "work_template", wt) ELSE p1
    IN [it EXCEPT !.props = p2, !.thumbnail_enabled = TRUE]

\* collector.py:188-189: the base collector types a file by its extension
is_video(filename) == Extension(filename) \in VideoExtensions

\* collector.py:151-162
movie_dir_name_of(ws) ==
    LET named == IF Contains(MovieWord, ws.movies_directory)
                     THEN ws.movies_directory ELSE None
    IN IF Truthy(named) THEN named ELSE DefaultMoviesDir

\* collector.py:183-207: whether the loop body reaches _collect_file
movie_collected(scene_version, movies_dir, filename) ==
    /\ is_video(filename)
    /\ scene_version # None
    /\ movie_version_of(path_join(movies_dir, filename)) # None
    /\ movie_version_of(path_join(movies_dir, filename)) = scene_version

\* collector.py:211-217
movie_item(parent, movies_dir, filename) ==
    LET it == create_item(parent, "file.video", "Movie", filename \o MovieRenderSuffix)
    IN [it EXCEPT !.props = Put(EmptyDict, "path", path_join(movies_dir, filename))]

RECURSIVE collect_movie_files(_, _, _, _)
collect_movie_files(parent, scene_version, movies_dir, listing) ==
    IF listing = <<>> THEN <<>>
    ELSE (IF movie_collected(scene_version, movies_dir, Head(listing))
              THEN <<movie_item(parent, movies_dir, Head(listing))>>
              ELSE <<>>)
         \o collect_movie_files(parent, scene_version, movies_dir, Tail(listing))

\* collector.py:140-217: the items collect_movies adds under parent
collect_movies(parent, project_root, ws, dsk) ==
    LET movies_dir == path_join(project_root, movie_dir_name_of(ws))
    IN IF movies_dir # dsk.movies_dir
           THEN <<>>
           ELSE collect_movie_files(parent, scene_version_of(ws.scenefile),
                                    movies_dir, dsk.listing)

(***************************************************************************)
(* Template fields and the display name of a render item.                  *)
(***************************************************************************)
\* str(n) for a natural number
RECURSIVE int_str(_)
int_str(n) ==
    LET d == <<"0", "1", "2", "3", "4", "5", "6", "7", "8", "9">>[(n % 10) + 1]
    IN IF n < 10 THEN <<d>> ELSE int_str(n \div 10) \o <<d>>

\* '{:0>3}'.format(x): x right-aligned in a field of width 3, filled with "0"
RECURSIVE zero_pad3(_)
zero_pad3(text) == IF Len(text) >= 3 THEN text ELSE zero_pad3(<<"0">> \o text)

\* '%s' % fields.get(key) for a string field (str(None) is "None")
field_text(fields, key) == IF Has(fields, key) THEN fields[key] ELSE <<"N", "o", "n", "e">>

\* a.get(key) != b.get(key)
fields_differ(a, b, key) ==
    IF Has(a, key) /\ Has(b, key) THEN a[key] # b[key] ELSE Has(a, key) # Has(b, key)

\* collector.py:252; every validated spec carries an integer version field
render_item_name(fields, etype) ==
    Concat(<<<<" ">>, field_text(fields, etype), <<" ", "-", " ">>,
             field_text(fields, "name"), <<" ", "v">>,
             zero_pad3(int_str(fields["version"]))>>)

\* collector.py:244-250: the sequence is skipped (continue)
render_skipped(entity_fields, fields, etype) ==
    fields_differ(entity_fields, fields, "version")

\* render_item with the host's default flags left on the item
render_item_default_flags(parent, seq_spec, name, work_template) ==
    LET it == create_item(parent, "gdn.rendering", "Rendered Sequence", name)
        p1 == Put(EmptyDict, "renderpaths", <<seq_spec>>)
    IN [it EXCEPT !.props = IF work_template # None
                                THEN Put(p1, "work_template", work_template) ELSE p1]

\* collector.py:255-269
render_item(parent, seq_spec, name, work_template) ==
    LET it == create_item(parent, "gdn.rendering", "Rendered Sequence", name)
        p1 == Put(EmptyDict, "renderpaths", <<seq_spec>>)
        p2 == IF work_template # None THEN Put(p1, "work_template", work_template) ELSE p1
    IN [it EXCEPT !.props = p2, !.thumbnail_enabled = FALSE,
                  !.context_change_allowed = FALSE, !.expanded = TRUE,
                  !.checked = TRUE]

\* collector.py:236-269: the body of the loop over the frame sequences
RECURSIVE collect_sequences(_, _, _, _, _)
collect_sequences(parent, entity_fields, etype, work_template, seqs) ==
    IF seqs = <<>> THEN <<>>
    ELSE LET sq == Head(seqs)
             rest == collect_sequences(parent, entity_fields, etype, work_template, Tail(seqs))
         IN IF ~sq.validated THEN rest
            ELSE IF render_skipped(entity_fields, sq.fields, etype) THEN rest
            ELSE <<render_item(parent, sq.spec,
                               render_item_name(sq.fields, etype), work_template)>> \o rest

\* entity_fields_error with the read of the scene's fields guarded against a
\* missing work template
entity_fields_error_guarded(work_template, ws) ==
    IF work_template # None /\ ~ws.fields_ok THEN "TankError" ELSE "none"

\* collector.py:222: work_template.get_fields(current scene path); None has no
\* get_fields (AttributeError), and a template raises TankError for a path it
\* does not match
entity_fields_error(work_template, ws) ==
    IF work_template = None THEN "AttributeError"
    ELSE IF ~ws.fields_ok THEN "TankError"
    ELSE "none"

\* collector.py:220-230
renders_directory_of(project_root, ws) ==
    path_join(project_root, IF Truthy(ws.images_directory)
                                THEN ws.images_directory ELSE DefaultImagesDir)

\* collector.py:219-269: the items added under parent and the exception raised
collect_renders(parent, project_root, s, work_template, ws, dsk, etype) ==
    LET render_collector_template == get_render_collector_template_for_item(s)
        err == entity_fields_error(work_template, ws)
        renders_directory == renders_directory_of(project_root, ws)
    IN IF err # "none" THEN [items |-> <<>>, raised |-> err]
       ELSE IF render_collector_template = None THEN [items |-> <<>>, raised |-> "none"]
       ELSE IF renders_directory # dsk.renders_dir THEN [items |-> <<>>, raised |-> "none"]
       ELSE [items |-> collect_sequences(parent, ws.scene_fields, etype,
                                         work_template, dsk.sequences),
             raised |-> "none"]

\* collector.py:73-93: the children created under the root item (index 0) and
\* the exception raised; the project item is child 1 and parents the rest
process_current_session(s, ws, dsk, etype) ==
    LET project == get_project_publish_item(s, ws)
        work_template == get_work_template_for_item(s)
        movies == collect_movies(1, ws.working_directory, ws, dsk)
        renders == collect_renders(1, ws.working_directory, s, work_template,
                                   ws, dsk, etype)
    IN IF ws.scenefile = None
           THEN [items |-> <<project>>, raised |-> "none"]
           ELSE [items |-> <<project>> \o movies \o renders.items,
                 raised |-> renders.raised]

(***************************************************************************)
(* The rendering publish plugin.                                           *)
(***************************************************************************)
\* strip_brackets that removes the opening bracket only
RECURSIVE strip_open_bracket(_)
strip_open_bracket(path) ==
    IF path = <<>> THEN <<>>
    ELSE IF Head(path) = "[" THEN strip_open_bracket(Tail(path))
    ELSE <<Head(path)>> \o strip_open_bracket(Tail(path))

\* re.sub(r"[\[\]]", "", each_path)
RECURSIVE strip_brackets(_)
strip_brackets(path) ==
    IF path = <<>> THEN <<>>
    ELSE IF Head(path) \in {"[", "]"} THEN strip_brackets(Tail(path))
    ELSE <<Head(path)>> \o strip_brackets(Tail(path))

\* sgtk.util.ShotgunPath.normalize as publish_rendering.py:213 uses it: None
\* stays None, trailing separators are dropped
RECURSIVE normalize(_)
normalize(path) ==
    IF path = None \/ path = <<>> THEN path
    ELSE IF path[Len(path)] = "/" THEN normalize(SubSeq(path, 1, Len(path) - 1))
    ELSE path

\* publish_rendering.py:211: iterating item.properties.get("renderpaths")
\* raises TypeError when the property is absent (None is not iterable)
renderpaths_error(props) == IF Has(props, "renderpaths") THEN "none" ELSE "TypeError"

\* publish_rendering.py:216-218: the first render path, brackets removed,
\* becomes the item's path
with_temporary_path(props) ==
    IF props["renderpaths"] = <<>> THEN props
    ELSE Put(props, "path", strip_brackets(Head(props["renderpaths"])))

\* publish_rendering.py:220-237: the gate proper
gate(props, ppath) ==
    IF ~Truthy(Get(props, "work_template", None)) THEN "REJECTED"
    ELSE IF ~Truthy(normalize(ppath)) THEN "REJECTED"
    ELSE "FULLY_ACCEPTED"

\* publish_rendering.py:197-237: the level returned, the properties left on
\* the item and the exception raised
is_acceptable(props, ppath) ==
    IF renderpaths_error(props) # "none"
        THEN [level |-> "none", props |-> props, raised |-> renderpaths_error(props)]
        ELSE [level |-> gate(props, ppath), props |-> with_temporary_path(props),
              raised |-> "none"]

AcceptedFalse == Put(EmptyDict, "accepted", FALSE)
AcceptedTrue == Put(Put(EmptyDict, "accepted", TRUE), "checked", TRUE)
NoReturn == EmptyDict
Returned(v) == Put(EmptyDict, "returned", v)

\* publish_rendering.py:100-128
accept(props, ppath) ==
    LET a == is_acceptable(props, ppath)
    IN [props |-> a.props, raised |-> a.raised,
        ret |-> IF a.raised # "none" THEN NoReturn
                ELSE IF a.level = "REJECTED" THEN AcceptedFalse
                ELSE AcceptedTrue]

\* validate without the gate: the inherited validation always runs
validate_ungated(props, ppath, base_result) ==
    LET a == is_acceptable(props, ppath)
    IN [props |-> a.props, raised |-> a.raised,
        ret |-> IF a.raised # "none" THEN NoReturn ELSE Returned(base_result),
        base |-> IF a.raised # "none" THEN <<>>
                 ELSE <<[call |-> "validate", path |-> Get(a.props, "path", None),
                         result |-> base_result]>>]

\* publish_rendering.py:130-147; base_result is what the inherited validate
\* answers when it is called
validate(props, ppath, base_result) ==
    LET a == is_acceptable(props, ppath)
    IN IF a.raised # "none"
           THEN [props |-> a.props, raised |-> a.raised, ret |-> NoReturn, base |-> <<>>]
       ELSE IF a.level # "FULLY_ACCEPTED"
           THEN [props |-> a.props, raised |-> "none", ret |-> Returned(FALSE), base |-> <<>>]
       ELSE [props |-> a.props, raised |-> "none", ret |-> Returned(base_result),
             base |-> <<[call |-> "validate", path |-> Get(a.props, "path", None),
                         result |-> base_result]>>]

\* the registration record the inherited publish leaves in sg_publish_data
sg_publish_data_for(path) == Put(EmptyDict, "path", path)

\* publish_one with the missing-keys check made after the inherited publish
publish_one_late_check(st, each_path, publish_template, missing) ==
    LET path == strip_brackets(each_path)
        p1 == Put(st.props, "path", path)
        p2 == IF publish_template # None
                  THEN Put(p1, "publish_template", publish_template) ELSE p1
        p3 == Put(p2, "sg_publish_data", sg_publish_data_for(path))
        published == Append(st.published, p3["sg_publish_data"])
        p4 == IF st.stored THEN Put(p3, "published_renderings", published) ELSE p3
    IN IF ~Has(p2, "work_template")
           THEN [st EXCEPT !.props = p2, !.raised = "KeyError"]
       ELSE IF ~Truthy(p2["work_template"])
           THEN [st EXCEPT !.props = p2]
       ELSE IF publish_template = None
           THEN [st EXCEPT !.props = p2, !.raised = "AttributeError"]
       ELSE [st EXCEPT !.props = p4, !.published = published,
                       !.base = Append(st.base, [call |-> "publish", path |-> path,
                                                 result |-> TRUE]),
                       !.raised = IF path \in missing THEN "Exception" ELSE "none"]

\* publish_rendering.py:172-195: one pass of the loop body over the state
\* st = [props, published, stored, base, raised]; published is the list
\* bound to published_renderings, stored tells whether that list is the one
\* held in the item's properties
publish_one(st, each_path, publish_template, missing) ==
    LET path == strip_brackets(each_path)
        p1 == Put(st.props, "path", path)
        p2 == IF publish_template # None
                  THEN Put(p1, "publish_template", publish_template) ELSE p1
        p3 == Put(p2, "sg_publish_data", sg_publish_data_for(path))
        published == Append(st.published, p3["sg_publish_data"])
        p4 == IF st.stored THEN Put(p3, "published_renderings", published) ELSE p3
    IN IF ~Has(p2, "work_template")
           THEN [st EXCEPT !.props = p2, !.raised = "KeyError"]
       ELSE IF ~Truthy(p2["work_template"])
           THEN [st EXCEPT !.props = p2]
       ELSE IF publish_template = None
           THEN [st EXCEPT !.props = p2, !.raised = "AttributeError"]
       ELSE IF path \in missing
           THEN [st EXCEPT !.props = p2, !.raised = "Exception"]
       ELSE [st EXCEPT !.props = p4, !.published = published,
                       !.base = Append(st.base, [call |-> "publish", path |-> path,
                                                 result |-> TRUE])]

\* publish_loop that goes on with the next path after a path has raised
RECURSIVE publish_loop_continue(_, _, _, _)
publish_loop_continue(st, render_paths, publish_template, missing) ==
    IF render_paths = <<>> THEN st
    ELSE publish_loop_continue(
             publish_one([st EXCEPT !.raised = "none"], Head(render_paths),
                         publish_template, missing),
             Tail(render_paths), publish_template, missing)

RECURSIVE publish_loop(_, _, _, _)
publish_loop(st, render_paths, publish_template, missing) ==
    IF render_paths = <<>> \/ st.raised # "none" THEN st
    ELSE publish_loop(publish_one(st, Head(render_paths), publish_template, missing),
                      Tail(render_paths), publish_template, missing)

\* publish_rendering.py:160-166
publish_setting_missing(s) == ~Has(s, "Publish Template")

\* publish_rendering.py:171
published_renderings_of(props) == Get(props, "published_renderings", <<>>)

\* publish_rendering.py:149-195
publish(s, props, missing) ==
    LET p0 == Put(props, "publish_type", <<"R", "e", "n", "d", "e", "r", "e", "d", " ", "I", "m", "a", "g", "e">>)
        render_paths == Get(p0, "renderpaths", <<>>)
        st0 == [props |-> p0, published |-> published_renderings_of(p0),
                stored |-> Has(p0, "published_renderings"),
                base |-> <<>>, raised |-> "none"]
    IN IF publish_setting_missing(s)
           THEN [st0 EXCEPT !.raised = "Exception"]
           ELSE publish_loop(st0, render_paths,
                             get_template_by_name(s["Publish Template"]), missing)

(***************************************************************************)
(* The inputs the hooks are run on.                                        *)
(***************************************************************************)
\* the sequences without repetition of at most n elements of S
SeqsUpTo(S, n) ==
    UNION {{q \in [1..k -> S] : \A i, j \in 1..k : i # j => q[i] # q[j]} : k \in 0..n}

SettingChoices(key, template) ==
    {EmptyDict, Put(EmptyDict, key, UnknownTemplate), Put(EmptyDict, key, template)}

CollectorSettings ==
    {a @@ b : a \in SettingChoices("Work Template", WorkTemplate),
              b \in SettingChoices("Render Sequence Template", RenderTemplate)}

SH010 == <<"S", "H", "0", "1", "0">>
SH020 == <<"S", "H", "0", "2", "0">>
Comp == <<"c", "o", "m", "p">>

Fields(shot, version) ==
    Put(Put(Put(EmptyDict, "Shot", shot), "name", Comp), "version", version)

ProjectRoot == <<"/", "p">>
VersionedRoot == <<"/", "s", ".", "v", "0", "0", "7", ".", "x">>

\* what the workspace reports about the current scene: a project never saved
\* (no scene file, reported as None or as ""), a scene the work template
\* resolves, and a scene whose name the work template does not match
SceneCases ==
    {[scenefile |-> None, fields_ok |-> FALSE, scene_fields |-> EmptyDict],
     [scenefile |-> <<>>, fields_ok |-> FALSE, scene_fields |-> EmptyDict],
     [scenefile |-> <<"a", ".", "v", "0", "0", "7", ".", "g", "d", "n">>,
      fields_ok |-> TRUE, scene_fields |-> Fields(SH010, 7)],
     [scenefile |-> <<"a", ".", "v", "1", "2", "3", "4", ".", "g", "d", "n">>,
      fields_ok |-> TRUE, scene_fields |-> Fields(SH010, 1234)],
     [scenefile |-> <<"a", ".", "g", "d", "n">>,
      fields_ok |-> FALSE, scene_fields |-> EmptyDict]}

\* the scene's path (engine.project_path) is empty until the project is saved
Workspaces(roots, movie_dirs, image_dirs) ==
    {[scenefile |-> c.scenefile,
      scene_path |-> IF Truthy(c.scenefile) THEN path_join(r, c.scenefile) ELSE <<>>,
      fields_ok |-> c.fields_ok, scene_fields |-> c.scene_fields,
      working_directory |-> r, movies_directory |-> m, images_directory |-> i] :
        c \in SceneCases, r \in roots, m \in movie_dirs, i \in image_dirs}

MovieFiles ==
    {<<"a", ".", "v", "0", "0", "7", ".", "m", "o", "v">>,
     <<"a", ".", "v", "0", "0", "8", ".", "m", "o", "v">>,
     <<"a", ".", "v", "0", "7", ".", "m", "o", "v">>,
     <<"a", ".", "m", "o", "v">>,
     <<"a", ".", "v", "0", "0", "7", ".", "t", "x", "t">>}

\* the frame sequences found under the images directory, each with what the
\* Render Sequence Template answers for its spec
FrameSequences ==
    {[spec |-> <<"r", "1", ".", "[", "#", "]">>, validated |-> TRUE, fields |-> Fields(SH010, 7)],
     [spec |-> <<"r", "2", ".", "[", "#", "]">>, validated |-> TRUE, fields |-> Fields(SH020, 7)],
     [spec |-> <<"r", "3", ".", "[", "#", "]">>, validated |-> TRUE, fields |-> Fields(SH010, 8)],
     [spec |-> <<"r", "4", ".", "[", "#", "]">>, validated |-> TRUE, fields |-> Fields(SH020, 8)],
     [spec |-> <<"r", "5", ".", "[", "#", "]">>, validated |-> TRUE, fields |-> Fields(SH010, 1234)],
     [spec |-> <<"x", "6", ".", "[", "#", "]">>, validated |-> FALSE, fields |-> Fields(SH010, 7)]}

Disks(movie_dirs, listings, sequences) ==
    {[movies_dir |-> d, listing |-> l,
      renders_dir |-> path_join(ProjectRoot, DefaultImagesDir), sequences |-> q] :
        d \in movie_dirs, l \in listings, q \in sequences}

EntityTypes == {"Shot", "Asset"}

\* the variables of the publish plugin, idle while the collector runs
\* the variables of the scene operation hook, idle while another hook runs
SceneOperationIdle ==
    /\ args = EmptyDict
    /\ gdn_calls = <<>>

\* the variables of the launcher, idle while a hook runs
LauncherIdle == launcher = EmptyDict

\* the variables of the widget, idle while a hook runs
WidgetIdle ==
    /\ widget = EmptyDict
    /\ trace = <<>>

PluginIdle ==
    /\ item = EmptyDict
    /\ project_path = None
    /\ missing_keys = {}
    /\ ret = NoReturn
    /\ base_calls = <<>>
    /\ before = EmptyDict
    /\ published_renderings = <<>>
    /\ calls = 0

(***************************************************************************)
(* The collector: the host calls process_current_session once on the root  *)
(* item of a publish session.                                              *)
(***************************************************************************)
ProcessCurrentSession ==
    /\ pc = "session"
    /\ LET r == process_current_session(settings, workspace, disk, entity_type)
       IN /\ items' = r.items
          /\ raised' = r.raised
    /\ pc' = "collected"
    /\ UNCHANGED <<settings, entity_type, workspace, disk, item, project_path,
                   missing_keys, ret, base_calls, before,
                   published_renderings, calls,
                   args, gdn_calls, launcher, widget, trace>>

NextCollector == ProcessCurrentSession

\* render collection: every frame-sequence list, few movie files
InitRenders ==
    /\ settings \in CollectorSettings
    /\ entity_type \in EntityTypes
    /\ workspace \in Workspaces({ProjectRoot}, {<<>>},
                                {<<>>, DefaultImagesDir, <<"i", "m", "g">>})
    /\ disk \in Disks({path_join(ProjectRoot, DefaultMoviesDir)},
                      {<<>>, <<<<"a", ".", "v", "0", "0", "7", ".", "m", "o", "v">>>>},
                      SeqsUpTo(FrameSequences, MaxSeqs))
    /\ items = <<>>
    /\ raised = "none"
    /\ pc = "session"
    /\ PluginIdle
    /\ SceneOperationIdle
    /\ LauncherIdle
    /\ WidgetIdle

SpecRenders == InitRenders /\ [][NextCollector]_vars

\* movie collection: every movies directory and listing, few frame sequences
InitMovies ==
    /\ settings \in CollectorSettings
    /\ entity_type = "Shot"
    /\ workspace \in Workspaces({ProjectRoot, VersionedRoot},
                                {<<>>, DefaultMoviesDir, <<"m", "o", "v", "i", "e", "s", "2">>}, {<<>>})
    /\ disk \in Disks({None} \cup {path_join(r, DefaultMoviesDir) :
                                     r \in {ProjectRoot, VersionedRoot}},
                      SeqsUpTo(MovieFiles, MaxFiles),
                      SeqsUpTo({q \in FrameSequences : q.fields = Fields(SH010, 7)}, 1))
    /\ items = <<>>
    /\ raised = "none"
    /\ pc = "session"
    /\ PluginIdle
    /\ SceneOperationIdle
    /\ LauncherIdle
    /\ WidgetIdle

SpecMovies == InitMovies /\ [][NextCollector]_vars

(***************************************************************************)
(* The publish plugin: the host hands it one item and calls accept,        *)
(* validate and publish on it.                                             *)
(***************************************************************************)
RenderPaths ==
    {<<"r", "1", ".", "[", "#", "]">>,
     <<"r", "2", ".", "[", "#", "]">>,
     <<"m", ".", "e", "x", "r">>}

OptionalProperty(key, values) == {EmptyDict} \cup {Put(EmptyDict, key, v) : v \in values}

\* the items of the collector and items another collector could hand over
PluginItems ==
    {a @@ b @@ c :
        a \in OptionalProperty("renderpaths", SeqsUpTo(RenderPaths, MaxPaths)),
        b \in OptionalProperty("work_template", {None, WorkTemplate}),
        c \in OptionalProperty("published_renderings", {<<>>})}

ProjectPaths == {None, <<>>, <<"/", "p", "/", "a", ".", "v", "0", "0", "7", ".", "g", "d", "n">>}

\* the variables of the collector, idle while the plugin runs
CollectorIdle ==
    /\ entity_type = "Shot"
    /\ workspace \in Workspaces({ProjectRoot}, {<<>>}, {<<>>})
    /\ workspace.scenefile = None
    /\ disk \in Disks({None}, {<<>>}, {<<>>})
    /\ items = <<>>

InitPlugin ==
    /\ settings \in SettingChoices("Publish Template", PublishTemplate)
    /\ item \in PluginItems
    /\ project_path \in ProjectPaths
    /\ missing_keys \in SUBSET {strip_brackets(<<"r", "2", ".", "[", "#", "]">>), <<"m", ".", "e", "x", "r">>}
    /\ before = item
    /\ published_renderings = <<>>
    /\ ret = NoReturn
    /\ base_calls = <<>>
    /\ raised = "none"
    /\ pc = "start"
    /\ calls = 0
    /\ CollectorIdle
    /\ SceneOperationIdle
    /\ LauncherIdle
    /\ WidgetIdle

Accept ==
    /\ calls < MaxCalls
    /\ LET r == accept(item, project_path)
       IN /\ item' = r.props
          /\ raised' = r.raised
          /\ ret' = r.ret
    /\ base_calls' = <<>>
    /\ before' = item
    /\ pc' = "accept"
    /\ calls' = calls + 1
    /\ UNCHANGED <<settings, entity_type, workspace, disk, items, project_path,
                   missing_keys, published_renderings,
                   args, gdn_calls, launcher, widget, trace>>

Validate ==
    /\ calls < MaxCalls
    /\ \E base_result \in BOOLEAN :
          LET r == validate(item, project_path, base_result)
          IN /\ item' = r.props
             /\ raised' = r.raised
             /\ ret' = r.ret
             /\ base_calls' = r.base
    /\ before' = item
    /\ pc' = "validate"
    /\ calls' = calls + 1
    /\ UNCHANGED <<settings, entity_type, workspace, disk, items, project_path,
                   missing_keys, published_renderings,
                   args, gdn_calls, launcher, widget, trace>>

Publish ==
    /\ calls < MaxCalls
    /\ LET r == publish(settings, item, missing_keys)
       IN /\ item' = r.props
          /\ raised' = r.raised
          /\ base_calls' = r.base
          /\ published_renderings' = r.published
    /\ ret' = NoReturn
    /\ before' = item
    /\ pc' = "publish"
    /\ calls' = calls + 1
    /\ UNCHANGED <<settings, entity_type, workspace, disk, items, project_path,
                   missing_keys, args, gdn_calls, launcher, widget, trace>>

Next == Accept \/ Validate \/ Publish

Spec == InitPlugin /\ [][Next]_vars

(***************************************************************************)
(* The scene operation hook of tk-multi-snapshot.  The hook only reads the  *)
(* workspace bridge and hands it calls; what the editor then does with a    *)
(* call is not part of this repository, so the calls are recorded.          *)
(***************************************************************************)
NoCalls == <<>>

\* execute("current_path", ...), scene_operation.py:37-42.  TankError is not
\* imported by the module (lines 10-11), so the raise statement ends with a
\* NameError.
current_path(ws) ==
    LET working_directory == ws.scene_path
    IN IF working_directory # <<>>
           THEN [ret |-> Returned(working_directory), raised |-> "none", calls |-> NoCalls]
           ELSE [ret |-> NoReturn, raised |-> "NameError", calls |-> NoCalls]

\* execute("open", file_path), scene_operation.py:44-46
open(file_path) ==
    [ret |-> Returned(None), raised |-> "none",
     calls |-> <<[call |-> "open", arg |-> file_path]>>]

\* execute("save", ...), scene_operation.py:48-54; os.path.join raises a
\* TypeError for a component that is None
save(ws) ==
    LET current_file_name == ws.scenefile
        working_directory == ws.working_directory
    IN IF current_file_name # <<>>
           THEN IF current_file_name = None \/ working_directory = None
                    THEN [ret |-> NoReturn, raised |-> "TypeError", calls |-> NoCalls]
                    ELSE [ret |-> Returned(None), raised |-> "none",
                          calls |-> <<[call |-> "save_as",
                                       arg |-> path_join(path_join(working_directory,
                                                                   <<"s", "n", "a", "p", "s", "h", "o", "t">>),
                                                         current_file_name)]>>]
           ELSE [ret |-> Returned(None), raised |-> "none", calls |-> NoCalls]

\* SceneOperation.execute, scene_operation.py:19-54
execute(ws, operation, file_path) ==
    IF operation = "current_path" THEN current_path(ws)
    ELSE IF operation = "open" THEN open(file_path)
    ELSE IF operation = "save" THEN save(ws)
    ELSE [ret |-> Returned(None), raised |-> "none", calls |-> NoCalls]

\* the operations tk-multi-snapshot and tk-multi-workfiles2 ask for
Operations == {"current_path", "open", "save", "save_as", "reset"}

FilePaths == {None, <<"/", "p", "/", "b", ".", "g", "d", "n">>}

\* what the bridge answers: a saved scene has a path under the working
\* directory, an unsaved one has an empty path or none
SceneOperationWorkspaces ==
    {[w EXCEPT !.scene_path = p] :
        w \in Workspaces({ProjectRoot}, {<<>>}, {<<>>}),
        p \in {None, <<>>, path_join(ProjectRoot, <<"a", ".", "g", "d", "n">>),
               path_join(ProjectRoot, <<"a", ".", "v", "0", "0", "7", ".", "g", "d", "n">>),
               path_join(ProjectRoot, <<"a", ".", "v", "1", "2", "3", "4", ".", "g", "d", "n">>)}}

SavedOrNot(w) ==
    IF Truthy(w.scenefile) THEN w.scene_path = path_join(w.working_directory, w.scenefile)
    ELSE ~Truthy(w.scene_path)

Execute ==
    /\ calls < MaxCalls
    /\ \E operation \in Operations, file_path \in FilePaths :
          LET r == execute(workspace, operation, file_path)
          IN /\ ret' = r.ret
             /\ raised' = r.raised
             /\ gdn_calls' = r.calls
             /\ args' = [operation |-> operation, file_path |-> file_path]
             /\ pc' = operation
    /\ calls' = calls + 1
    /\ UNCHANGED <<settings, entity_type, workspace, disk, items, item, project_path,
                   missing_keys, base_calls, before, published_renderings,
                   launcher, widget, trace>>

NextSceneOperation == Execute

InitSceneOperation ==
    /\ workspace \in {w \in SceneOperationWorkspaces : SavedOrNot(w)}
    /\ settings = EmptyDict
    /\ entity_type = "Shot"
    /\ disk \in Disks({None}, {<<>>}, {<<>>})
    /\ items = <<>>
    /\ raised = "none"
    /\ pc = "start"
    /\ PluginIdle
    /\ SceneOperationIdle
    /\ LauncherIdle
    /\ WidgetIdle

SpecSceneOperation == InitSceneOperation /\ [][NextSceneOperation]_vars

(***************************************************************************)
(* The launcher, startup.py.  The launcher record holds what the host      *)
(* answers: the engine's environment name, the frameworks the tk-gdn       *)
(* engine requires, the path of the framework descriptor, os.environ's     *)
(* PYTHONPATH (None when unset), the platform and the executables the      *)
(* match template finds on disk.                                           *)
(***************************************************************************)
MaxExecutables == 2

PathSep == ":"

\* str.split(sep)
RECURSIVE split(_, _)
split(s, sep) ==
    IF \A i \in 1..Len(s) : s[i] # sep THEN <<s>>
    ELSE LET i == CHOOSE k \in 1..Len(s) :
                      s[k] = sep /\ \A j \in 1..(k - 1) : s[j] # sep
         IN <<SubSeq(s, 1, i - 1)>> \o split(SubSeq(s, i + 1, Len(s)), sep)

\* sep.join(parts)
RECURSIVE join(_, _)
join(parts, sep) ==
    IF parts = <<>> THEN <<>>
    ELSE IF Len(parts) = 1 THEN parts[1]
    ELSE parts[1] \o <<sep>> \o join(Tail(parts), sep)

\* sgtk.util.append_path_to_env_var on a variable whose value is  value
\* (None when unset): the new value of the variable
append_path_to_env_var(value, path) ==
    LET paths == SelectSeq(split(IF value = None THEN <<>> ELSE value, PathSep),
                           LAMBDA x : x # <<>>)
    IN join(IF \E i \in 1..Len(paths) : paths[i] = path THEN paths
            ELSE Append(paths, path), PathSep)

\* os.pathsep.join(sys.path) and sys.executable of the launching process
SysPath == <<"/", "a", ":", "/", "b">>
SysExecutable == <<"/", "p", "y">>

FrameworkName == <<"t", "k", "-", "f", "r", "a", "m", "e", "w", "o", "r", "k", "-", "g", "d", "n">>
EngineName == <<"t", "k", "-", "g", "d", "n">>

\* d.update(e)
Update(d, e) ==
    [k \in (DOMAIN d) \cup (DOMAIN e) |-> IF k \in DOMAIN e THEN e[k] ELSE d[k]]

\* the first required framework named tk-framework-gdn, 0 when there is none
\* (startup.py:209-210)
gdn_framework_index(required) ==
    IF \E i \in 1..Len(required) : Get(required[i], "name", None) = FrameworkName
        THEN CHOOSE i \in 1..Len(required) :
                 /\ Get(required[i], "name", None) = FrameworkName
                 /\ \A j \in 1..(i - 1) : Get(required[j], "name", None) # FrameworkName
        ELSE 0

\* "_".join(name_parts), startup.py:211-214
framework_name_of(req_framework) ==
    join(<<req_framework["name"]>>
         \o (IF Has(req_framework, "version") THEN <<req_framework["version"]>> ELSE <<>>),
         "_")

\* env.get_framework_descriptor(framework_name).get_path(): the host's answer
descriptor_path(l, framework_name) == l.framework_path

\* GDNLauncher.__get_gdn_framework_location, startup.py:176-226
get_gdn_framework_location(l) ==
    IF l.env_name = None THEN None
    ELSE LET i == gdn_framework_index(l.required_frameworks)
         IN IF i = 0 THEN None
            ELSE descriptor_path(l, framework_name_of(l.required_frameworks[i]))

\* compute_environment that sets the location without testing it
compute_environment_unchecked(l) ==
    LET framework_location == get_gdn_framework_location(l)
        pythonpath == append_path_to_env_var(l.pythonpath, SysPath)
    IN [raised |-> "none", pythonpath |-> pythonpath,
        env |-> Put(Put(Put(Put(EmptyDict,
                   "SHOTGUN_GDN_PYTHON", SysExecutable),
                   "SHOTGUN_GDN_FRAMEWORK_LOCATION", framework_location),
                   "SHOTGUN_ENGINE", EngineName),
                   "PYTHONPATH", pythonpath)]

\* GDNLauncher.compute_environment, startup.py:136-174
compute_environment(l) ==
    LET framework_location == get_gdn_framework_location(l)
        pythonpath == append_path_to_env_var(l.pythonpath, SysPath)
    IN IF framework_location = None
           THEN [raised |-> "EngineConfigurationError", pythonpath |-> l.pythonpath,
                 env |-> EmptyDict]
           ELSE [raised |-> "none", pythonpath |-> pythonpath,
                 env |-> Put(Put(Put(Put(EmptyDict,
                            "SHOTGUN_GDN_PYTHON", SysExecutable),
                            "SHOTGUN_GDN_FRAMEWORK_LOCATION", framework_location),
                            "SHOTGUN_ENGINE", EngineName),
                            "PYTHONPATH", pythonpath)]

\* SoftwareLauncher.get_standard_plugin_environment: site and context
get_standard_plugin_environment ==
    Put(Put(EmptyDict, "SHOTGUN_SITE", <<"s", "i", "t", "e">>),
        "SHOTGUN_ENTITY_TYPE", <<"S", "h", "o", "t">>)

\* LaunchInformation(exec_path, args, required_env)
LaunchInformation(exec_path, launch_args, environment) ==
    [path |-> exec_path, args |-> launch_args, environment |-> environment]

\* GDNLauncher.prepare_launch, startup.py:63-85
prepare_launch(l, exec_path, launch_args, file_to_open) ==
    LET c == compute_environment(l)
    IN IF c.raised # "none"
           THEN [ret |-> NoReturn, raised |-> c.raised, pythonpath |-> c.pythonpath]
           ELSE LET required_env == Update(c.env, get_standard_plugin_environment)
                    with_file == IF Truthy(file_to_open)
                                     THEN Put(required_env, "SGTK_FILE_TO_OPEN", file_to_open)
                                     ELSE required_env
                IN [ret |-> Returned(LaunchInformation(exec_path, launch_args, with_file)),
                    raised |-> "none", pythonpath |-> c.pythonpath]

\* GDNLauncher.minimum_supported_version, "6.0.300" (startup.py:61), as the
\* numbers sgtk.util.is_version_older compares
minimum_supported_version == <<6, 0, 300>>

\* sgtk.util.is_version_older(a, b) on versions of three numbers
is_version_older(a, b) ==
    \E i \in 1..3 : a[i] < b[i] /\ \A j \in 1..(i - 1) : a[j] = b[j]

\* SoftwareLauncher._is_supported: not older than the minimum version
is_supported(sw_version) ==
    ~is_version_older(sw_version.version, minimum_supported_version)

\* GDNLauncher.EXECUTABLE_MATCH_TEMPLATES, startup.py:48-54: one set of
\* templates, with a template for win32 only
EXECUTABLE_MATCH_TEMPLATES ==
    <<Put(EmptyDict, "win32",
          "AppData/Roaming/422 Global Data Navigator/{version}/422GlobalDataNavigator-{version_back}.exe")>>

\* self._glob_and_match(template, COMPONENT_REGEX_LOOKUP): the executables on
\* disk that match the template, each with the tokens matched from its path
glob_and_match(l, template) == l.found

\* SoftwareVersion(version, product, path, icon)
SoftwareVersion(version, path) ==
    [version |-> version, product |-> "422 Global Data Navigator", path |-> path]

\* the body of the inner loop, startup.py:118-132
RECURSIVE scan_matches(_)
scan_matches(matches) ==
    IF matches = <<>> THEN <<>>
    ELSE LET executable_version == Get(Head(matches).tokens, "version", None)
             sw_version == SoftwareVersion(executable_version, Head(matches).path)
         IN (IF is_supported(sw_version) THEN <<sw_version>> ELSE <<>>)
            \o scan_matches(Tail(matches))

\* the platform name, startup.py:100-106
platform_of(l) ==
    IF l.is_windows THEN <<"w", "i", "n", "3", "2">>
    ELSE IF l.is_macos THEN <<"d", "a", "r", "w", "i", "n">>
    ELSE None

\* the dictionary key of a platform name
platform_key(platform) ==
    IF platform = <<"w", "i", "n", "3", "2">> THEN "win32" ELSE "darwin"

\* the outer loop, startup.py:114-132: a template set without the platform's
\* key raises KeyError
RECURSIVE scan_template_sets(_, _, _)
scan_template_sets(l, sets, platform) ==
    IF sets = <<>> THEN [raised |-> "none", versions |-> <<>>]
    ELSE IF ~Has(Head(sets), platform_key(platform))
        THEN [raised |-> "KeyError", versions |-> <<>>]
    ELSE LET here == scan_matches(glob_and_match(l, Head(sets)[platform_key(platform)]))
             rest == scan_template_sets(l, Tail(sets), platform)
         IN [raised |-> rest.raised, versions |-> here \o rest.versions]

\* GDNLauncher.scan_software, startup.py:87-134
scan_software(l) ==
    LET platform == platform_of(l)
    IN IF platform = None THEN [ret |-> Returned(<<>>), raised |-> "none"]
       ELSE LET r == scan_template_sets(l, EXECUTABLE_MATCH_TEMPLATES, platform)
            IN IF r.raised # "none" THEN [ret |-> NoReturn, raised |-> r.raised]
               ELSE [ret |-> Returned(r.versions), raised |-> "none"]

\* the executables a disk can hold, with the tokens of their paths
Executables ==
    {[path |-> <<"6", ".", "0", ".", "3", "0", "0">>,
      tokens |-> Put(Put(EmptyDict, "version", <<6, 0, 300>>), "version_back", <<6, 0, 300>>)],
     [path |-> <<"5", ".", "9", ".", "9", "9", "9">>,
      tokens |-> Put(Put(EmptyDict, "version", <<5, 9, 999>>), "version_back", <<5, 9, 999>>)],
     [path |-> <<"6", ".", "1", ".", "0">>,
      tokens |-> Put(Put(EmptyDict, "version", <<6, 1, 0>>), "version_back", <<6, 0, 0>>)]}

\* engine_desc.get_required_frameworks()
RequiredFrameworks ==
    LET other == Put(Put(EmptyDict, "name", <<"q", "t">>), "version", <<"v", "2">>)
        gdn == Put(EmptyDict, "name", FrameworkName)
        gdn_v1 == Put(gdn, "version", <<"v", "1">>)
    IN {<<>>, <<other>>, <<gdn>>, <<other, gdn_v1>>}

LauncherHosts ==
    [env_name : {None, <<"p", "r", "o", "j", "e", "c", "t">>},
     required_frameworks : RequiredFrameworks,
     framework_path : {None, <<"/", "f", "w">>},
     pythonpath : {None, <<"/", "x">>},
     is_windows : BOOLEAN,
     is_macos : BOOLEAN,
     found : SeqsUpTo(Executables, MaxExecutables)]

ExecPath == <<"g", "d", "n", ".", "e", "x", "e">>

FilesToOpen == {None, <<>>, <<"/", "p", "/", "a", ".", "g", "d", "n">>}

PrepareLaunch ==
    /\ calls < MaxCalls
    /\ \E file_to_open \in FilesToOpen :
          LET r == prepare_launch(launcher, ExecPath, <<>>, file_to_open)
          IN /\ ret' = r.ret
             /\ raised' = r.raised
             /\ launcher' = [launcher EXCEPT !.pythonpath = r.pythonpath]
             /\ args' = [exec_path |-> ExecPath, args |-> <<>>, file_to_open |-> file_to_open]
    /\ pc' = "prepare_launch"
    /\ calls' = calls + 1
    /\ UNCHANGED <<settings, entity_type, workspace, disk, items, item, project_path,
                   missing_keys, base_calls, before, published_renderings,
                   gdn_calls, widget, trace>>

ScanSoftware ==
    /\ calls < MaxCalls
    /\ LET r == scan_software(launcher)
       IN /\ ret' = r.ret
          /\ raised' = r.raised
    /\ args' = EmptyDict
    /\ pc' = "scan_software"
    /\ calls' = calls + 1
    /\ UNCHANGED <<settings, entity_type, workspace, disk, items, item, project_path,
                   missing_keys, base_calls, before, published_renderings,
                   gdn_calls, launcher, widget, trace>>

NextLauncher == PrepareLaunch \/ ScanSoftware

InitLauncher ==
    /\ launcher \in {l \in LauncherHosts : ~(l.is_windows /\ l.is_macos)}
    /\ settings = EmptyDict
    /\ CollectorIdle
    /\ raised = "none"
    /\ pc = "start"
    /\ PluginIdle
    /\ SceneOperationIdle
    /\ WidgetIdle

SpecLauncher == InitLauncher /\ [][NextLauncher]_vars

(***************************************************************************)
(* ContextWidget, python/tk_gdn/task_selector.py.  The widget record holds *)
(* the widget's fields and the registry of shotgun_globals; trace lists    *)
(* the calls the widget has made on its collaborators, in order.           *)
(***************************************************************************)
NoTaskManager == "none"

\* the objects BackgroundTaskManager(self) can be
TaskManagers == {"tm1", "tm2"}

\* a manager some other dialog has registered
OtherTaskManager == "tm0"

\* contexts: the task of a context is None or an entity
Contexts ==
    {[entity |-> "Shot", task |-> None],
     [entity |-> "Shot", task |-> <<"c", "o", "m", "p">>],
     [entity |-> "Asset", task |-> <<"r", "i", "g">>]}

NoContext == [entity |-> "none", task |-> None]

\* one call of the widget on a collaborator
Called(call, manager, context, call_raised) ==
    [call |-> call, task_manager |-> manager, context |-> context, raised |-> call_raised]

NoWidget(registry) ==
    [constructed |-> FALSE, closed |-> FALSE, task_manager |-> NoTaskManager,
     registered |-> registry, context |-> NoContext, change_action |-> FALSE,
     recent_saved |-> FALSE]

\* ContextWidget.__init__, task_selector.py:38-95
init(w, manager, context, action) ==
    [widget |-> [w EXCEPT !.constructed = TRUE,
                          !.task_manager = manager,
                          !.registered = w.registered \cup {manager},
                          !.context = context,
                          !.change_action = action],
     trace |-> <<Called("BackgroundTaskManager", manager, NoContext, FALSE),
                 Called("register_bg_task_manager", manager, NoContext, FALSE),
                 Called("set_up", manager, NoContext, FALSE),
                 Called("set_context", NoTaskManager, context, FALSE)>>,
     raised |-> "none"]

\* closeEvent without the try around shut_down
closeEvent_unguarded(w, shut_down_raises) ==
    [widget |-> [w EXCEPT !.closed = TRUE,
                          !.registered = w.registered \ {w.task_manager},
                          !.recent_saved = ~shut_down_raises],
     trace |-> <<Called("unregister_bg_task_manager", w.task_manager, NoContext, FALSE),
                 Called("shut_down", w.task_manager, NoContext, shut_down_raises)>>
               \o (IF shut_down_raises THEN <<>>
                   ELSE <<Called("save_recent_contexts", NoTaskManager, NoContext, FALSE)>>),
     raised |-> IF shut_down_raises THEN "Exception" ELSE "none"]

\* ContextWidget.closeEvent, task_selector.py:118-137: an Exception of
\* shut_down is logged and dropped
closeEvent(w, shut_down_raises) ==
    [widget |-> [w EXCEPT !.closed = TRUE,
                          !.registered = w.registered \ {w.task_manager},
                          !.recent_saved = TRUE],
     trace |-> <<Called("unregister_bg_task_manager", w.task_manager, NoContext, FALSE),
                 Called("shut_down", w.task_manager, NoContext, shut_down_raises),
                 Called("save_recent_contexts", NoTaskManager, NoContext, FALSE)>>,
     raised |-> "none"]

\* _on_item_context_change that does not look at the task of the context
on_item_context_change_any_task(w, context, shut_down_raises) ==
    LET set == [w EXCEPT !.context = context]
        first == <<Called("set_context", NoTaskManager, context, FALSE)>>
    IN IF w.change_action
           THEN LET c == closeEvent(set, shut_down_raises)
                IN [widget |-> c.widget,
                    trace |-> first
                              \o <<Called("change_action", NoTaskManager, context, FALSE),
                                   Called("close", NoTaskManager, NoContext, FALSE)>>
                              \o c.trace,
                    raised |-> c.raised]
           ELSE [widget |-> set, trace |-> first, raised |-> "none"]

\* ContextWidget._on_item_context_change, task_selector.py:99-115;
\* self.close() delivers the close event before it returns
on_item_context_change(w, context, shut_down_raises) ==
    LET set == [w EXCEPT !.context = context]
        first == <<Called("set_context", NoTaskManager, context, FALSE)>>
    IN IF context.task # None /\ w.change_action
           THEN LET c == closeEvent(set, shut_down_raises)
                IN [widget |-> c.widget,
                    trace |-> first
                              \o <<Called("change_action", NoTaskManager, context, FALSE),
                                   Called("close", NoTaskManager, NoContext, FALSE)>>
                              \o c.trace,
                    raised |-> c.raised]
           ELSE [widget |-> set, trace |-> first, raised |-> "none"]

Construct ==
    /\ calls < MaxCalls
    /\ ~widget.constructed
    /\ \E manager \in TaskManagers, context \in Contexts, action \in BOOLEAN :
          LET r == init(widget, manager, context, action)
          IN /\ widget' = r.widget
             /\ trace' = trace \o r.trace
             /\ raised' = r.raised
    /\ pc' = "init"
    /\ calls' = calls + 1
    /\ UNCHANGED <<settings, entity_type, workspace, disk, items, item, project_path,
                   missing_keys, ret, base_calls, before, published_renderings,
                   args, gdn_calls, launcher>>

OnItemContextChange ==
    /\ calls < MaxCalls
    /\ widget.constructed /\ ~widget.closed
    /\ \E context \in Contexts, shut_down_raises \in BOOLEAN :
          LET r == on_item_context_change(widget, context, shut_down_raises)
          IN /\ widget' = r.widget
             /\ trace' = trace \o r.trace
             /\ raised' = r.raised
    /\ pc' = "on_item_context_change"
    /\ calls' = calls + 1
    /\ UNCHANGED <<settings, entity_type, workspace, disk, items, item, project_path,
                   missing_keys, ret, base_calls, before, published_renderings,
                   args, gdn_calls, launcher>>

CloseEvent ==
    /\ calls < MaxCalls
    /\ widget.constructed /\ ~widget.closed
    /\ \E shut_down_raises \in BOOLEAN :
          LET r == closeEvent(widget, shut_down_raises)
          IN /\ widget' = r.widget
             /\ trace' = trace \o r.trace
             /\ raised' = r.raised
    /\ pc' = "closeEvent"
    /\ calls' = calls + 1
    /\ UNCHANGED <<settings, entity_type, workspace, disk, items, item, project_path,
                   missing_keys, ret, base_calls, before, published_renderings,
                   args, gdn_calls, launcher>>

NextWidget == Construct \/ OnItemContextChange \/ CloseEvent

InitWidget ==
    /\ widget \in {NoWidget(registry) : registry \in SUBSET {OtherTaskManager}}
    /\ trace = <<>>
    /\ settings = EmptyDict
    /\ CollectorIdle
    /\ raised = "none"
    /\ pc = "start"
    /\ PluginIdle
    /\ SceneOperationIdle
    /\ LauncherIdle

SpecWidget == InitWidget /\ [][NextWidget]_vars

(***************************************************************************)
(* Properties of the collector.                                            *)
(***************************************************************************)
Range(q) == {q[i] : i \in 1..Len(q)}

RenderItemIndexes == {i \in 1..Len(items) : items[i].type = "gdn.rendering"}

MovieItemIndexes == {i \in 1..Len(items) : items[i].type = "file.video"}

\* a render item was created for the sequence spec
RenderItemFor(spec) ==
    \E i \in RenderItemIndexes : items[i].props["renderpaths"] = <<spec>>

\* collect_renders ran to its end over the frame sequences on disk
RendersWalked ==
    /\ pc = "collected"
    /\ raised = "none"
    /\ workspace.scenefile # None
    /\ get_render_collector_template_for_item(settings) # None
    /\ renders_directory_of(workspace.working_directory, workspace) = disk.renders_dir

\* C1: a validated frame sequence gets a gdn.rendering item if and only if
\* both its entity-type field and its version field equal the scene's; a
\* mismatch on either field alone excludes it.
C1_IncludedIffBothFieldsMatch ==
    RendersWalked =>
        \A sq \in Range(disk.sequences) :
            sq.validated =>
                (RenderItemFor(sq.spec) <=>
                    /\ ~fields_differ(workspace.scene_fields, sq.fields, entity_type)
                    /\ ~fields_differ(workspace.scene_fields, sq.fields, "version"))

\* the NAME.vDDD.EXT version token of a file name taken on its own
file_name_version(filename) == version_group(filename, FALSE)

\* C2: the version token compared with the scene version is the 3-digit group
\* of the movie's own file name; a file whose name has no .vDDD. segment is
\* never collected, whatever the directory part of its path holds.
C2_VersionTokenFromFileName ==
    pc = "collected" =>
        \A f \in Range(disk.listing) :
            (\E i \in MovieItemIndexes :
                items[i].props["path"] = path_join(disk.movies_dir, f))
            => /\ file_name_version(f) # None
               /\ file_name_version(f) = scene_version_of(workspace.scenefile)

\* C3: with no Render Sequence Template configured, process_current_session
\* creates no gdn.rendering item and raises no error, whatever the other
\* settings are (stated for a scene the work template resolves).
C3_NoRenderTemplateNoItemsNoError ==
    (/\ pc = "collected"
     /\ workspace.fields_ok
     /\ get_render_collector_template_for_item(settings) = None)
    => /\ raised = "none"
       /\ RenderItemIndexes = {}

\* the display name the specification gives a render item
claimed_display_name(fields, etype) ==
    Concat(<<field_text(fields, etype), <<" ", "-", " ">>, field_text(fields, "name"),
             <<" ", "v">>, zero_pad3(int_str(fields["version"]))>>)

\* C5: the display name of a collected render item is exactly
\* "<entity> - <name> v<version zero-padded to 3>", no other characters:
\* (shot SH010, name comp, version 7) gives "SH010 - comp v007".
C5_DisplayNameExact ==
    /\ claimed_display_name(Fields(SH010, 7), "Shot") = <<"S", "H", "0", "1", "0", " ", "-", " ", "c", "o", "m", "p", " ", "v", "0", "0", "7">>
    /\ \A i \in RenderItemIndexes :
          \A sq \in Range(disk.sequences) :
              items[i].props["renderpaths"] = <<sq.spec>> =>
                  items[i].name = claimed_display_name(sq.fields, entity_type)

\* C10: no gdn.rendering item exists when no work template is available; every
\* gdn.rendering item carries a work_template property that is not None.
C10_RenderItemsCarryWorkTemplate ==
    /\ get_work_template_for_item(settings) = None => RenderItemIndexes = {}
    /\ \A i \in RenderItemIndexes :
          /\ Has(items[i].props, "work_template")
          /\ items[i].props["work_template"] # None

C10_Witness ==
    /\ pc = "collected"
    /\ raised = "none"
    /\ Cardinality(RenderItemIndexes) >= 2
    /\ \A i \in RenderItemIndexes : items[i].props["work_template"] = WorkTemplate

\* C11: when the project has not been saved (the workspace reports no current
\* scene file), process_current_session adds no child item of any kind under
\* the parent item and raises no error.
C11_UnsavedProjectAddsNoItem ==
    (pc = "collected" /\ workspace.scenefile = None)
    => /\ items = <<>>
       /\ raised = "none"

\* the listed file was collected as a movie item
MovieItemFor(f) ==
    \E i \in MovieItemIndexes : items[i].props["path"] = path_join(disk.movies_dir, f)

\* C12: a movie file is collected only if the host types it file.video and
\* its version token equals the version token of the scene file name; with no
\* scene version no movie is collected; no file name causes an exception (an
\* exception of the call is the one of collect_renders).
C12_MoviesOnlyForSceneVersion ==
    pc = "collected" =>
        /\ \A f \in Range(disk.listing) :
               MovieItemFor(f) =>
                   /\ is_video(f)
                   /\ scene_version_of(workspace.scenefile) # None
                   /\ file_name_version(f) = scene_version_of(workspace.scenefile)
        /\ scene_version_of(workspace.scenefile) = None => MovieItemIndexes = {}
        /\ raised # "none" =>
               raised = entity_fields_error(get_work_template_for_item(settings), workspace)

\* the sequences on disk that collect_renders keeps: validated, and with the
\* entity-type field and the version field of the scene
MatchingSequences ==
    {sq \in Range(disk.sequences) :
        /\ sq.validated
        /\ ~fields_differ(workspace.scene_fields, sq.fields, entity_type)
        /\ ~fields_differ(workspace.scene_fields, sq.fields, "version")}

\* C18: every gdn.rendering item carries a renderpaths list of exactly one
\* element, the spec of a validated sequence found on disk; it is checked and
\* expanded, with thumbnail creation disabled and context change disallowed;
\* each matching sequence spec gets one item of its own (no merging of specs
\* into one item, no second item for a spec).
C18_OneItemPerSequenceSpec ==
    /\ \A i \in RenderItemIndexes :
          /\ Len(items[i].props["renderpaths"]) = 1
          /\ \E sq \in Range(disk.sequences) :
                sq.validated /\ items[i].props["renderpaths"] = <<sq.spec>>
          /\ items[i].checked
          /\ items[i].expanded
          /\ ~items[i].thumbnail_enabled
          /\ ~items[i].context_change_allowed
    /\ RendersWalked =>
          \A sq \in MatchingSequences :
              Cardinality({i \in RenderItemIndexes :
                              items[i].props["renderpaths"] = <<sq.spec>>}) = 1
    /\ \A i, j \in RenderItemIndexes :
          i # j => items[i].props["renderpaths"] # items[j].props["renderpaths"]

C18_Witness ==
    /\ RendersWalked
    /\ Cardinality(MatchingSequences) = 1
    /\ Cardinality(RenderItemIndexes) = 2

(***************************************************************************)
(* Properties of the publish plugin.                                       *)
(***************************************************************************)
\* the publish template publish() works with, None when the setting is
\* absent or names no template
configured_publish_template(s) ==
    IF Has(s, "Publish Template") THEN get_template_by_name(s["Publish Template"])
    ELSE None

\* C4: publish() on an item with no publish template configured (setting
\* absent, or present and resolving to no template) always raises, never
\* invokes the inherited publish and adds no entry to published_renderings,
\* for every renderpaths list, the empty one included.
C4_NoPublishTemplateAlwaysRaises ==
    (/\ pc = "publish"
     /\ Has(before, "renderpaths")
     /\ configured_publish_template(settings) = None)
    => /\ raised # "none"
       /\ base_calls = <<>>
       /\ published_renderings = Get(before, "published_renderings", <<>>)

\* C6: accept() returns {"accepted": True, "checked": True} if and only if
\* the item carries a non-empty work_template and the project path is
\* non-empty, and {"accepted": False} in every other case, never raising,
\* also for an item with no renderpaths property.
C6_AcceptIffGateAndNeverRaises ==
    pc = "accept" =>
        /\ raised = "none"
        /\ IF Truthy(Get(before, "work_template", None)) /\ Truthy(project_path)
               THEN ret = AcceptedTrue
               ELSE ret = AcceptedFalse

\* C7: validate() applies accept()'s gate: when accept() would reject the
\* item, validate() returns False and the inherited validation is not
\* invoked; when the gate passes, the inherited validation is invoked exactly
\* once and validate() returns its result unchanged.
C7_ValidateAppliesAcceptGate ==
    pc = "validate" =>
        LET a == accept(before, project_path)
        IN /\ (a.raised = "none" /\ a.ret = AcceptedFalse)
                  => /\ raised = "none"
                     /\ ret = Returned(FALSE)
                     /\ base_calls = <<>>
           /\ (a.raised = "none" /\ a.ret = AcceptedTrue)
                  => /\ raised = "none"
                     /\ Len(base_calls) = 1
                     /\ base_calls[1].call = "validate"
                     /\ ret = Returned(base_calls[1].result)

C7_Witness ==
    /\ pc = "validate"
    /\ accept(before, project_path).ret = AcceptedTrue
    /\ Len(base_calls) = 1
    /\ ret = Returned(FALSE)

\* the render paths of the item, brackets removed, that lack keys of the
\* publish template
MissingKeyPaths(props) ==
    {strip_brackets(p) : p \in Range(Get(props, "renderpaths", <<>>))} \cap missing_keys

\* the registration records the last publish() appended
NewRecords ==
    {published_renderings[i] :
        i \in (Len(Get(before, "published_renderings", <<>>)) + 1)..Len(published_renderings)}

\* C8: in publish(), a render path for which the publish template reports
\* missing keys raises an exception before the inherited publish is invoked
\* for it, and no registration record for it is appended.
C8_MissingKeysRaiseBeforeBasePublish ==
    pc = "publish" =>
        /\ \A i \in 1..Len(base_calls) : base_calls[i].path \notin missing_keys
        /\ \A r \in NewRecords : r["path"] \notin missing_keys
        /\ (/\ configured_publish_template(settings) # None
            /\ Truthy(Get(before, "work_template", None))
            /\ MissingKeyPaths(before) # {})
           => raised = "Exception"

C8_Witness ==
    /\ pc = "publish"
    /\ raised = "Exception"
    /\ MissingKeyPaths(before) # {}
    /\ Len(base_calls) = 1
    /\ Cardinality(NewRecords) = 1

\* the properties the collector sets on a render item
CollectorKeys == {"renderpaths", "work_template", "published_renderings"}

\* props is the property bag of a gdn.rendering item of the collector, plus
\* what plugin calls have added to it
CollectedRenderItem(props) ==
    \E sq \in FrameSequences :
        [k \in (DOMAIN props) \cap CollectorKeys |-> props[k]]
            = render_item(1, sq.spec, <<>>, WorkTemplate).props

\* C9: after publish() completes on a gdn.rendering item of the collector,
\* the item's properties hold under published_renderings one registration
\* record per path published.
C9_AccumulatorOnItem ==
    (pc = "publish" /\ raised = "none" /\ CollectedRenderItem(before))
    => /\ Has(item, "published_renderings")
       /\ Len(item["published_renderings"]) = Len(base_calls)
       /\ \A i \in 1..Len(base_calls) :
             item["published_renderings"][i] = sg_publish_data_for(base_calls[i].path)

\* the indexes of the render paths whose missing-keys check fails
FailingIndexes(render_paths) ==
    {i \in 1..Len(render_paths) : strip_brackets(render_paths[i]) \in missing_keys}

\* the number of render paths before the first failing one
PublishedCount(render_paths) ==
    IF FailingIndexes(render_paths) = {} THEN Len(render_paths)
    ELSE (CHOOSE k \in FailingIndexes(render_paths) :
              \A j \in FailingIndexes(render_paths) : k <= j) - 1

\* C16: publish() takes the render paths in list order with no rollback: when
\* the missing-keys check first fails at index k, the inherited publish has
\* been invoked exactly once for each path before k, with the item's path set
\* to it, and for no path from k on; when no check fails it is invoked once
\* per path, in order (for an item with a work template; never without one).
C16_PublishInOrderNoRollback ==
    (/\ pc = "publish"
     /\ Has(before, "renderpaths")
     /\ Has(before, "work_template")
     /\ configured_publish_template(settings) # None)
    => LET rp == before["renderpaths"]
           n == PublishedCount(rp)
       IN IF ~Truthy(before["work_template"])
              THEN base_calls = <<>> /\ raised = "none"
              ELSE /\ base_calls = [i \in 1..n |->
                                      [call |-> "publish",
                                       path |-> strip_brackets(rp[i]), result |-> TRUE]]
                   /\ raised = IF n < Len(rp) THEN "Exception" ELSE "none"
                   /\ Len(published_renderings)
                        = Len(Get(before, "published_renderings", <<>>)) + n
                   /\ n < Len(rp) => item["path"] = strip_brackets(rp[n + 1])
                   /\ (n = Len(rp) /\ n > 0) => item["path"] = strip_brackets(rp[n])

C16_Witness ==
    /\ pc = "publish"
    /\ Has(before, "renderpaths")
    /\ Len(before["renderpaths"]) = 2
    /\ PublishedCount(before["renderpaths"]) = 1
    /\ raised = "Exception"
    /\ base_calls = <<[call |-> "publish",
                       path |-> strip_brackets(before["renderpaths"][1]),
                       result |-> TRUE]>>
    /\ Has(before, "published_renderings")
    /\ Len(item["published_renderings"]) = Len(before["published_renderings"]) + 1

\* the render paths of the item with the brackets removed
StrippedRenderPaths(props) ==
    {strip_brackets(p) : p \in Range(Get(props, "renderpaths", <<>>))}

\* C17: the path that accept(), validate() or publish() writes on the item
\* is a render path of the item with every "[" and "]" removed; accept() and
\* validate() write the first render path only, also when the gate rejects
\* the item, and leave every other property of the item unchanged.
C17_PathIsBracketFreeRenderPath ==
    /\ Has(item, "path") =>
          /\ item["path"] \in StrippedRenderPaths(item)
          /\ \A i \in 1..Len(item["path"]) : item["path"][i] \notin {"[", "]"}
    /\ (pc \in {"accept", "validate"} /\ raised = "none") =>
          item = IF before["renderpaths"] = <<>> THEN before
                 ELSE Put(before, "path", strip_brackets(Head(before["renderpaths"])))

C17_Witness ==
    /\ pc = "accept"
    /\ ret = AcceptedFalse
    /\ ~Has(before, "path")
    /\ Has(item, "path")
    /\ Head(before["renderpaths"]) # item["path"]

(***************************************************************************)
(* Properties of the scene operation hook.                                 *)
(***************************************************************************)

\* C14: execute("current_path") returns the workspace's current scene path
\* when that path is a non-empty string and otherwise raises a TankError; it
\* never returns an empty path.
C14_CurrentPathOrTankError ==
    pc = "current_path" =>
        /\ IF Truthy(workspace.scene_path)
               THEN ret = Returned(workspace.scene_path) /\ raised = "none"
               ELSE ret = NoReturn /\ raised = "TankError"
        /\ ret # Returned(<<>>)

\* C19: "open" calls Workspace.open(file_path) once and nothing else; "save"
\* calls Workspace.save_as once with working_directory/snapshot/scene file
\* name when there is a current scene file, and calls nothing and raises
\* nothing when there is none, be it reported as "" or as None; any other
\* operation calls no mutator and returns None.
C19_DispatchCallsWorkspace ==
    /\ pc = "open" =>
          /\ gdn_calls = <<[call |-> "open", arg |-> args.file_path]>>
          /\ raised = "none"
    /\ pc = "save" =>
          IF Truthy(workspace.scenefile)
              THEN /\ gdn_calls = <<[call |-> "save_as",
                                     arg |-> workspace.working_directory
                                             \o <<"/", "s", "n", "a", "p", "s", "h", "o", "t", "/">>
                                             \o workspace.scenefile]>>
                   /\ raised = "none"
              ELSE gdn_calls = <<>> /\ raised = "none"
    /\ pc \in Operations \ {"current_path", "open", "save"} =>
          /\ gdn_calls = <<>>
          /\ ret = Returned(None)
          /\ raised = "none"

(***************************************************************************)
(* Properties of the launcher.                                             *)
(***************************************************************************)
LaunchKeys ==
    {"SHOTGUN_GDN_PYTHON", "SHOTGUN_GDN_FRAMEWORK_LOCATION", "SHOTGUN_ENGINE", "PYTHONPATH"}

\* the location of tk-framework-gdn cannot be determined: no environment
\* name, no such required framework, or a descriptor without a path
LocationUnknown ==
    \/ launcher.env_name = None
    \/ \A i \in 1..Len(launcher.required_frameworks) :
           launcher.required_frameworks[i]["name"] # FrameworkName
    \/ launcher.framework_path = None

\* C13: the environment of every LaunchInformation prepare_launch returns has
\* SHOTGUN_GDN_PYTHON, SHOTGUN_GDN_FRAMEWORK_LOCATION (not None),
\* SHOTGUN_ENGINE and PYTHONPATH, and has SGTK_FILE_TO_OPEN exactly when a
\* non-empty file_to_open was given, then equal to it; when the location of
\* tk-framework-gdn cannot be determined prepare_launch raises
\* EngineConfigurationError and returns nothing.
C13_LaunchEnvironment ==
    pc = "prepare_launch" =>
        /\ raised = "none" =>
              /\ Has(ret, "returned")
              /\ LaunchKeys \subseteq DOMAIN ret["returned"].environment
              /\ ret["returned"].environment["SHOTGUN_GDN_FRAMEWORK_LOCATION"] # None
              /\ Has(ret["returned"].environment, "SGTK_FILE_TO_OPEN")
                    <=> Truthy(args.file_to_open)
              /\ Truthy(args.file_to_open) =>
                    ret["returned"].environment["SGTK_FILE_TO_OPEN"] = args.file_to_open
        /\ LocationUnknown <=> raised = "EngineConfigurationError"
        /\ raised # "none" => ret = NoReturn /\ raised = "EngineConfigurationError"

C13_Witness ==
    /\ pc = "prepare_launch"
    /\ raised = "none"
    /\ Has(ret["returned"].environment, "SGTK_FILE_TO_OPEN")
    /\ launcher.pythonpath = ret["returned"].environment["PYTHONPATH"]

\* the versions scan_software is to return: the supported executables found
RECURSIVE SupportedFound(_)
SupportedFound(found) ==
    IF found = <<>> THEN <<>>
    ELSE (IF ~is_version_older(Head(found).tokens["version"], minimum_supported_version)
              THEN <<[version |-> Head(found).tokens["version"],
                      product |-> "422 Global Data Navigator",
                      path |-> Head(found).path]>>
              ELSE <<>>)
         \o SupportedFound(Tail(found))

\* C20: scan_software returns a list on every platform and never raises: the
\* empty list on a platform that is neither Windows nor macOS, and on Windows
\* and macOS the discovered executables that are supported, each with the
\* version token of its path as version.
C20_ScanReturnsList ==
    pc = "scan_software" =>
        /\ raised = "none"
        /\ ret = Returned(IF launcher.is_windows \/ launcher.is_macos
                              THEN SupportedFound(launcher.found)
                              ELSE <<>>)

(***************************************************************************)
(* Properties of ContextWidget.                                            *)
(***************************************************************************)
CallNames(from, to) == [i \in 1..(to - from + 1) |-> trace[from + i - 1].call]

\* the widget has just been closed: by a close event, or by a context change
\* that ran the change action
JustClosed ==
    \/ pc = "closeEvent"
    \/ pc = "on_item_context_change" /\ widget.closed

\* C15: closing the widget unregisters the background task manager that
\* __init__ registered, then calls its shut_down, then saves the recent
\* contexts; the unregister and the save happen also when shut_down raises,
\* and closeEvent does not let that exception out.
C15_CloseUnregistersShutsDownSaves ==
    JustClosed =>
        LET n == Len(trace)
        IN /\ n >= 3
           /\ CallNames(n - 2, n)
                = <<"unregister_bg_task_manager", "shut_down", "save_recent_contexts">>
           /\ trace[n - 2].task_manager = widget.task_manager
           /\ trace[n - 1].task_manager = widget.task_manager
           /\ \E i \in 1..(n - 3) :
                  /\ trace[i].call = "register_bg_task_manager"
                  /\ trace[i].task_manager = widget.task_manager
           /\ widget.task_manager \notin widget.registered
           /\ widget.recent_saved
           /\ raised = "none"

C15_Witness ==
    /\ pc = "closeEvent"
    /\ Len(trace) >= 3
    /\ trace[Len(trace) - 1].call = "shut_down"
    /\ trace[Len(trace) - 1].raised
    /\ trace[Len(trace)].call = "save_recent_contexts"
    /\ OtherTaskManager \in widget.registered

\* the places of the trace where a context_changed signal was handled: the
\* set_context calls other than the one of __init__, which follows set_up
SignalIndexes ==
    {i \in 2..Len(trace) : trace[i].call = "set_context" /\ trace[i - 1].call # "set_up"}

\* the call at place i of the trace, "end" past its end
CallAt(i) == IF i <= Len(trace) THEN trace[i].call ELSE "end"

====
